---- MODULE Spec2Model ----
(***************************************************************************)
(* A model of mmaction/models/recognizers/base.py: the BaseRecognizer      *)
(* contract (construction, init_weights, extract_feat, average_clip,       *)
(* forward routing, train_step, val_step), as called by an external        *)
(* trainer.  Every action is one call from the trainer; the collaborators  *)
(* the class only invokes (builder, backbone, head, the subclass's         *)
(* forward_train / forward_test, parse_losses) are opaque: a call to one   *)
(* is an event of the call's trace and returns an uninterpreted value or   *)
(* raises.                                                                 *)
(***************************************************************************)
EXTENDS Integers, Sequences, FiniteSets, TLC

\* Bounds of the model.
MaxClips == 2       \* rows (clips) of a score tensor
MaxClasses == 2     \* columns (classes) of a score tensor
MaxBatch == 2       \* length of a tensor of a data batch

ScoreVals == {1, 3}

(***************************************************************************)
(* Python values.                                                          *)
(***************************************************************************)
None == [tag |-> "None"]
Str(s) == [tag |-> "str", s |-> s]
Tensor(n) == [tag |-> "Tensor", len |-> n]

Tensors == {Tensor(n) : n \in 0..MaxBatch}
PyVals == {None} \cup Tensors

\* A dict in insertion order: a sequence of <<key, value>> with distinct keys.
DictKeys(d) == {d[i][1] : i \in 1..Len(d)}
DictGet(d, k) == d[CHOOSE i \in 1..Len(d) : d[i][1] = k][2]

\* A configuration argument: None, or a dict.
CfgNone == [isNone |-> TRUE, d |-> <<>>]
Cfg(d) == [isNone |-> FALSE, d |-> d]

\* Exceptions; NoExc is "the call returned".
NoExc == [type |-> "", msg |-> <<>>]
Exc(type, msg) == [type |-> type, msg |-> msg]

\* The outcome of a (sub)call: the collaborator calls it made, in order, the
\* exception it raised (or NoExc) and the value it returned.
Returned(trace, ret) == [trace |-> trace, exc |-> NoExc, ret |-> ret]
Raised(trace, exc) == [trace |-> trace, exc |-> exc, ret |-> None]
Event(fn, args) == [fn |-> fn, args |-> args]

(***************************************************************************)
(* Rationals <<n, d>>, d > 0, in lowest terms: the entries of a score      *)
(* tensor (floating point, modelled exactly).                              *)
(***************************************************************************)
Abs(n) == IF n < 0 THEN -n ELSE n

RECURSIVE Gcd(_, _)
Gcd(a, b) == IF b = 0 THEN a ELSE Gcd(b, a % b)

Rat(n, d) ==
    LET g == Gcd(Abs(n), d)
    IN  IF g = 0 THEN <<0, 1>> ELSE <<n \div g, d \div g>>

RatAdd(p, q) == Rat(p[1] * q[2] + q[1] * p[2], p[2] * q[2])
RatDivInt(p, k) == Rat(p[1], p[2] * k)

RECURSIVE RatSum(_)
RatSum(s) == IF s = <<>> THEN <<0, 1>> ELSE RatAdd(s[1], RatSum(Tail(s)))

\* Score tensors of shape (k, c), k rows of c entries.
NumRows(S) == Len(S)
NumCols(S) == Len(S[1])
ScoreTensors ==
    UNION {[1..k -> [1..c -> {<<v, 1>> : v \in ScoreVals}]] :
             k \in 1..MaxClips, c \in 1..MaxClasses}

(***************************************************************************)
(* Tensor operations used by average_clip.                                 *)
(***************************************************************************)
Column(S, j) == [i \in 1..NumRows(S) |-> S[i][j]]

\* S.mean(dim=0, keepdim=True) of a tensor of rationals: one row, the j-th
\* entry the sum of column j divided by the number of rows.
\* (mutant) the mean taken along dim=1: one entry per row.
MeanDim1KeepDim(S) ==
    [i \in 1..NumRows(S) |-> <<RatDivInt(RatSum(S[i]), NumCols(S))>>]

MeanDim0KeepDim(S) ==
    <<[j \in 1..NumCols(S) |-> RatDivInt(RatSum(Column(S, j)), NumRows(S))]>>

\* F.softmax(S, dim=1): entry (i, j) is exp(S[i][j]) / sum_m exp(S[i][m]),
\* kept as that term (exp is not computed).
SoftmaxDim1(S) ==
    [i \in 1..NumRows(S) |->
        [j \in 1..NumCols(S) |-> [exp |-> S[i][j], over |-> S[i]]]]

\* P.mean(dim=0, keepdim=True) of a tensor of softmax terms: one row, the
\* j-th entry the term (sum of column j) / (number of rows).
TermMeanDim0KeepDim(P) ==
    <<[j \in 1..NumCols(P) |-> [sum |-> Column(P, j), count |-> NumRows(P)]]>>

(***************************************************************************)
(* BaseRecognizer.average_clip(self, cls_score), reading self.test_cfg.    *)
(***************************************************************************)
\* (mutant) every value passes the check.
IsSupportedPolicy_Any(v) == TRUE

\* average_clips in ['score', 'prob', None]
IsSupportedPolicy(v) == v = Str("score") \/ v = Str("prob") \/ v = None

\* (mutant) whatever is not 'prob' is averaged as 'score' is.
apply_policy_ElseAverages(average_clips, cls_score) ==
    IF average_clips = Str("prob")
    THEN Returned(<<Event("F.softmax", <<>>), Event("mean", <<>>)>>,
                  TermMeanDim0KeepDim(SoftmaxDim1(cls_score)))
    ELSE Returned(<<Event("mean", <<>>)>>, MeanDim0KeepDim(cls_score))

\* The policy applied, once the value has been checked.
apply_policy(average_clips, cls_score) ==
    IF average_clips = Str("prob")
    THEN Returned(<<Event("F.softmax", <<>>), Event("mean", <<>>)>>,
                  TermMeanDim0KeepDim(SoftmaxDim1(cls_score)))
    ELSE IF average_clips = Str("score")
    THEN Returned(<<Event("mean", <<>>)>>, MeanDim0KeepDim(cls_score))
    ELSE Returned(<<>>, cls_score)

average_clip(test_cfg, cls_score) ==
    IF test_cfg.isNone
    THEN \* None has no .keys()
         Raised(<<>>, Exc("AttributeError",
                          <<Str("'NoneType' object has no attribute 'keys'")>>))
    ELSE IF "average_clips" \notin DictKeys(test_cfg.d)
    THEN Raised(<<>>, Exc("KeyError",
                          <<Str("\"average_clips\" must defined in test_cfg's keys")>>))
    ELSE LET average_clips == DictGet(test_cfg.d, "average_clips")
         IN  IF ~IsSupportedPolicy(average_clips)
             THEN Raised(<<>>, Exc("ValueError",
                              <<average_clips, Str(" is not supported. "),
                                Str("Currently supported ones are "),
                                Str("[\"score\", \"prob\", None]")>>))
             ELSE apply_policy(average_clips, cls_score)

(***************************************************************************)
(* The collaborators.  `fail` names the collaborator that raises if it is  *)
(* invoked in this call ("" for none).                                     *)
(***************************************************************************)
\* A sub-model: whether it is built, whether its init_weights has defined
\* its parameters, and whether the optimizer has updated them since.
Unbuilt == [built |-> FALSE, inited |-> FALSE, updated |-> FALSE]
Built == [built |-> TRUE, inited |-> FALSE, updated |-> FALSE]
Initialized == [built |-> TRUE, inited |-> TRUE, updated |-> FALSE]

\* The registries of builder.build_backbone / builder.build_head.
BackboneRegistry == {"ResNet3d"}
HeadRegistry == {"I3DHead"}
BackboneCfgs == {"ResNet3d", "NoSuchBackbone"}
HeadCfgs == {"I3DHead", "NoSuchHead"}

build_backbone(cfg) ==
    IF cfg \in BackboneRegistry
    THEN Returned(<<Event("build_backbone", <<Str(cfg)>>)>>, Built)
    ELSE Raised(<<Event("build_backbone", <<Str(cfg)>>)>>,
                Exc("KeyError", <<Str(cfg)>>))

build_head(cfg) ==
    IF cfg \in HeadRegistry
    THEN Returned(<<Event("build_head", <<Str(cfg)>>)>>, Built)
    ELSE Raised(<<Event("build_head", <<Str(cfg)>>)>>,
                Exc("KeyError", <<Str(cfg)>>))

\* A sub-model's own init_weights(): it returns with the parameters
\* initialized, or raises, having written none of them.
module_init_weights(name, m, fail) ==
    IF fail = name
    THEN [trace |-> <<Event(name, <<>>)>>, exc |-> Exc("RuntimeError", <<Str(name)>>),
          m |-> m]
    ELSE [trace |-> <<Event(name, <<>>)>>, exc |-> NoExc, m |-> Initialized]

\* The subclass's forward_train(imgs, labels): a mapping of losses.
forward_train(imgs, labels, fail) ==
    IF fail = "forward_train"
    THEN Raised(<<Event("forward_train", <<imgs, labels>>)>>,
                Exc("RuntimeError", <<Str("forward_train")>>))
    ELSE Returned(<<Event("forward_train", <<imgs, labels>>)>>,
                  [kind |-> "losses", of |-> <<imgs, labels>>])

\* The subclass's forward_test(imgs): predictions.
forward_test(imgs, fail) ==
    IF fail = "forward_test"
    THEN Raised(<<Event("forward_test", <<imgs>>)>>,
                Exc("RuntimeError", <<Str("forward_test")>>))
    ELSE Returned(<<Event("forward_test", <<imgs>>)>>,
                  [kind |-> "predictions", of |-> <<imgs>>])

\* mmaction.apis.parse_losses(losses): (loss, log_vars).
parse_losses(losses, fail) ==
    IF fail = "parse_losses"
    THEN Raised(<<Event("parse_losses", <<losses>>)>>,
                Exc("TypeError", <<Str("parse_losses")>>))
    ELSE Returned(<<Event("parse_losses", <<losses>>)>>,
                  <<[kind |-> "loss", of |-> losses],
                    [kind |-> "log_vars", of |-> losses]>>)

\* self.backbone(imgs): features.
backbone_call(imgs, fail) ==
    IF fail = "backbone"
    THEN Raised(<<Event("backbone", <<imgs>>)>>,
                Exc("RuntimeError", <<Str("backbone")>>))
    ELSE Returned(<<Event("backbone", <<imgs>>)>>,
                  [kind |-> "features", of |-> <<imgs>>])

(***************************************************************************)
(* BaseRecognizer's methods, as functions of the instance's fields and the *)
(* arguments.                                                              *)
(***************************************************************************)
Failed(r) == r.exc.type # ""

\* (mutant) the head's routine first, then the backbone's.
init_weights_HeadFirst(bb, head, fail) ==
    LET b == module_init_weights("backbone.init_weights", bb, fail)
        h == module_init_weights("cls_head.init_weights", head, fail)
    IN  IF Failed(h)
        THEN [trace |-> h.trace, exc |-> h.exc,
              backbone |-> bb, cls_head |-> h.m]
        ELSE [trace |-> h.trace \o b.trace, exc |-> b.exc,
              backbone |-> b.m, cls_head |-> h.m]

\* (mutant) the backbone's routine is not called.
init_weights_HeadOnly(bb, head, fail) ==
    LET h == module_init_weights("cls_head.init_weights", head, fail)
    IN  [trace |-> h.trace, exc |-> h.exc, backbone |-> bb, cls_head |-> h.m]

\* init_weights(self): the backbone's routine, then the head's.
init_weights(bb, head, fail) ==
    LET b == module_init_weights("backbone.init_weights", bb, fail)
        h == module_init_weights("cls_head.init_weights", head, fail)
    IN  IF Failed(b)
        THEN [trace |-> b.trace, exc |-> b.exc,
              backbone |-> b.m, cls_head |-> head]
        ELSE [trace |-> b.trace \o h.trace, exc |-> h.exc,
              backbone |-> b.m, cls_head |-> h.m]

\* __init__(self, backbone, cls_head, train_cfg, test_cfg).
NoInstance ==
    [exists |-> FALSE, backbone |-> Unbuilt, cls_head |-> Unbuilt,
     train_cfg |-> CfgNone, test_cfg |-> CfgNone]

__init__(backbone_cfg, cls_head_cfg, tr_cfg, te_cfg, fail) ==
    LET b == build_backbone(backbone_cfg)
        h == build_head(cls_head_cfg)
        c == <<Event("self.train_cfg", <<tr_cfg>>),
               Event("self.test_cfg", <<te_cfg>>)>>
        w == init_weights(b.ret, h.ret, fail)
    IN  IF Failed(b)
        THEN [trace |-> b.trace, exc |-> b.exc, self |-> NoInstance]
        ELSE IF Failed(h)
        THEN [trace |-> b.trace \o h.trace, exc |-> h.exc, self |-> NoInstance]
        ELSE IF Failed(w)
        THEN [trace |-> b.trace \o h.trace \o c \o w.trace, exc |-> w.exc,
              self |-> NoInstance]
        ELSE [trace |-> b.trace \o h.trace \o c \o w.trace, exc |-> NoExc,
              self |-> [exists |-> TRUE, backbone |-> w.backbone,
                        cls_head |-> w.cls_head,
                        train_cfg |-> tr_cfg, test_cfg |-> te_cfg]]

\* extract_feat(self, imgs).
extract_feat(imgs, fail) == backbone_call(imgs, fail)

\* (mutant) the label is not checked.
forward_NoLabelCheck(imgs, label, return_loss, fail) ==
    IF return_loss
    THEN forward_train(imgs, label, fail)
    ELSE forward_test(imgs, fail)

\* (mutant) the test on return_loss inverted.
forward_Inverted(imgs, label, return_loss, fail) ==
    IF ~return_loss
    THEN IF label = None
         THEN Raised(<<>>, Exc("ValueError", <<Str("Label should not be None.")>>))
         ELSE forward_train(imgs, label, fail)
    ELSE forward_test(imgs, fail)

\* forward(self, imgs, label=None, return_loss=True).
forward(imgs, label, return_loss, fail) ==
    IF return_loss
    THEN IF label = None
         THEN Raised(<<>>, Exc("ValueError", <<Str("Label should not be None.")>>))
         ELSE forward_train(imgs, label, fail)
    ELSE forward_test(imgs, fail)

\* train_step(self, data_batch, optimizer).
FirstValue(data_batch) == data_batch[1][2]

\* (mutant) the number of entries of the record.
num_samples_DictLen(data_batch) == Returned(<<>>, Len(data_batch))

\* len(next(iter(data_batch.values()))): the length of the first entry.
num_samples(data_batch) ==
    IF FirstValue(data_batch) = None
    THEN Raised(<<>>, Exc("TypeError",
                          <<Str("object of type 'NoneType' has no len()")>>))
    ELSE Returned(<<>>, FirstValue(data_batch).len)

train_step(data_batch, fail) ==
    IF "imgs" \notin DictKeys(data_batch)
    THEN Raised(<<>>, Exc("KeyError", <<Str("imgs")>>))
    ELSE IF "label" \notin DictKeys(data_batch)
    THEN Raised(<<>>, Exc("KeyError", <<Str("label")>>))
    ELSE LET imgs == DictGet(data_batch, "imgs")
             label == DictGet(data_batch, "label")
             losses == forward(imgs, label, TRUE, fail)
             parsed == parse_losses(losses.ret, fail)
             n == num_samples(data_batch)
         IN  IF Failed(losses)
             THEN Raised(losses.trace, losses.exc)
             ELSE IF Failed(parsed)
             THEN Raised(losses.trace \o parsed.trace, parsed.exc)
             ELSE IF Failed(n)
             THEN Raised(losses.trace \o parsed.trace, n.exc)
             ELSE Returned(losses.trace \o parsed.trace,
                           [loss |-> parsed.ret[1], log_vars |-> parsed.ret[2],
                            num_samples |-> n.ret])

\* (mutant) forward is called with return_loss left at its default, True.
val_step_ReturnLoss(data_batch, fail) ==
    IF "imgs" \notin DictKeys(data_batch)
    THEN Raised(<<>>, Exc("KeyError", <<Str("imgs")>>))
    ELSE LET imgs == DictGet(data_batch, "imgs")
             results == forward(imgs, None, TRUE, fail)
         IN  IF Failed(results)
             THEN Raised(results.trace, results.exc)
             ELSE Returned(results.trace, [results |-> results.ret])

\* val_step(self, data_batch, optimizer).
val_step(data_batch, fail) ==
    IF "imgs" \notin DictKeys(data_batch)
    THEN Raised(<<>>, Exc("KeyError", <<Str("imgs")>>))
    ELSE LET imgs == DictGet(data_batch, "imgs")
             results == forward(imgs, None, FALSE, fail)
         IN  IF Failed(results)
             THEN Raised(results.trace, results.exc)
             ELSE Returned(results.trace, [results |-> results.ret])

(***************************************************************************)
(* The state: the one recognizer instance of the run and the record of the *)
(* call the trainer has just made on it (op = "" between calls).           *)
(***************************************************************************)
VARIABLES
    exists,      \* an instance has been constructed
    backbone,    \* self.backbone
    cls_head,    \* self.cls_head
    train_cfg,   \* self.train_cfg
    test_cfg,    \* self.test_cfg
    ctor,        \* the trace of the __init__ call that made the instance
    inferred,    \* an earlier call on the instance reached forward_test
    op,          \* the last call: its name,
    args,        \*   its arguments,
    trace,       \*   the collaborator calls it made, in order,
    exc,         \*   the exception it raised (NoExc if it returned),
    ret,         \*   the value it returned,
    pre          \*   and the sub-models' parameters when it began

vars == <<exists, backbone, cls_head, train_cfg, test_cfg, ctor, inferred,
          op, args, trace, exc, ret, pre>>

Params == [backbone |-> backbone, cls_head |-> cls_head]

TrainCfgs == {CfgNone, Cfg(<<>>)}
TestCfgs ==
    {CfgNone, Cfg(<<>>), Cfg(<< <<"other", Str("x")>> >>)}
    \cup {Cfg(<< <<"average_clips", v>> >>) :
            v \in {Str("score"), Str("prob"), None, Str("max")}}

BatchKeys == {"imgs", "label", "meta"}
Batches ==
    {d \in UNION {[1..n -> BatchKeys \X PyVals] : n \in 0..Cardinality(BatchKeys)} :
        \A i, j \in 1..Len(d) : d[i][1] = d[j][1] => i = j}

InitFails == {"", "backbone.init_weights", "cls_head.init_weights"}

Init ==
    /\ exists = FALSE
    /\ backbone = Unbuilt
    /\ cls_head = Unbuilt
    /\ train_cfg = CfgNone
    /\ test_cfg = CfgNone
    /\ ctor = <<>>
    /\ inferred = FALSE
    /\ op = ""
    /\ args = <<>>
    /\ trace = <<>>
    /\ exc = NoExc
    /\ ret = None
    /\ pre = [backbone |-> Unbuilt, cls_head |-> Unbuilt]

\* The record of a call that leaves the instance's fields alone.
Idle == op = ""

Called(name, a, r) ==
    /\ op' = name
    /\ args' = a
    /\ trace' = r.trace
    /\ exc' = r.exc
    /\ ret' = r.ret
    /\ pre' = Params
    /\ UNCHANGED <<exists, backbone, cls_head, train_cfg, test_cfg, ctor,
                   inferred>>

New ==
    /\ Idle
    /\ ~exists
    /\ \E b \in BackboneCfgs, h \in HeadCfgs, tr \in TrainCfgs, te \in TestCfgs,
          fail \in InitFails :
          LET r == __init__(b, h, tr, te, fail)
          IN  /\ exists' = r.self.exists
              /\ backbone' = r.self.backbone
              /\ cls_head' = r.self.cls_head
              /\ train_cfg' = r.self.train_cfg
              /\ test_cfg' = r.self.test_cfg
              /\ ctor' = IF r.self.exists THEN r.trace ELSE <<>>
              /\ inferred' = FALSE
              /\ op' = "__init__"
              /\ args' = <<Str(b), Str(h)>>
              /\ trace' = r.trace
              /\ exc' = r.exc
              /\ ret' = None
              /\ pre' = Params

InitWeights ==
    /\ Idle
    /\ exists
    /\ \E fail \in InitFails :
          LET r == init_weights(backbone, cls_head, fail)
          IN  /\ backbone' = r.backbone
              /\ cls_head' = r.cls_head
              /\ op' = "init_weights"
              /\ args' = <<>>
              /\ trace' = r.trace
              /\ exc' = r.exc
              /\ ret' = None
              /\ pre' = Params
              /\ UNCHANGED <<exists, train_cfg, test_cfg, ctor, inferred>>

ExtractFeat ==
    /\ Idle
    /\ exists
    /\ \E imgs \in PyVals, fail \in {"", "backbone"} :
          Called("extract_feat", <<imgs>>, extract_feat(imgs, fail))

AverageClip ==
    /\ Idle
    /\ exists
    /\ \E S \in ScoreTensors :
          Called("average_clip", <<S>>, average_clip(test_cfg, S))

Forward ==
    /\ Idle
    /\ exists
    /\ \E imgs \in PyVals, label \in PyVals, return_loss \in BOOLEAN,
          fail \in {"", "forward_train", "forward_test"} :
          Called("forward", <<imgs, label, return_loss>>,
                 forward(imgs, label, return_loss, fail))

TrainStep ==
    /\ Idle
    /\ exists
    /\ \E data_batch \in Batches, fail \in {"", "forward_train", "parse_losses"} :
          Called("train_step", <<data_batch>>, train_step(data_batch, fail))

ValStep ==
    /\ Idle
    /\ exists
    /\ \E data_batch \in Batches, fail \in {"", "forward_test"} :
          Called("val_step", <<data_batch>>, val_step(data_batch, fail))

\* The trainer's optimizer updates the parameters between calls.
OptimizerStep ==
    /\ Idle
    /\ exists
    /\ backbone' = [backbone EXCEPT !.updated = TRUE]
    /\ cls_head' = [cls_head EXCEPT !.updated = TRUE]
    /\ op' = "optimizer.step"
    /\ args' = <<>>
    /\ trace' = <<>>
    /\ exc' = NoExc
    /\ ret' = None
    /\ pre' = Params
    /\ UNCHANGED <<exists, train_cfg, test_cfg, ctor, inferred>>

\* The trainer has dealt with the outcome of the call and goes on.
Resume ==
    /\ ~Idle
    /\ op' = ""
    /\ args' = <<>>
    /\ trace' = <<>>
    /\ exc' = NoExc
    /\ ret' = None
    /\ pre' = Params
    /\ inferred' = (inferred \/ \E i \in 1..Len(trace) : trace[i].fn = "forward_test")
    /\ UNCHANGED <<exists, backbone, cls_head, train_cfg, test_cfg, ctor>>

Next ==
    \/ New
    \/ InitWeights
    \/ ExtractFeat
    \/ AverageClip
    \/ Forward
    \/ TrainStep
    \/ ValStep
    \/ OptimizerStep
    \/ Resume

Spec == Init /\ [][Next]_vars

(***************************************************************************)
(* Properties.                                                             *)
(***************************************************************************)
TraceFns == [i \in 1..Len(trace) |-> trace[i].fn]
Invoked(fn) == \E i \in 1..Len(trace) : trace[i].fn = fn
HasPolicy == ~test_cfg.isNone /\ "average_clips" \in DictKeys(test_cfg.d)
Policy == DictGet(test_cfg.d, "average_clips")

\* C1: forward(imgs, label=None, return_loss=True) raises the ValueError
\* 'Label should not be None.' for every imgs and in every state of the
\* instance, and invokes neither forward_train nor forward_test.
C1_MissingLabelRaises ==
    (op = "forward" /\ args[2] = None /\ args[3] = TRUE)
        => /\ exc = Exc("ValueError", <<Str("Label should not be None.")>>)
           /\ ~Invoked("forward_train")
           /\ ~Invoked("forward_test")
           /\ trace = <<>>

C1_Witness ==
    /\ op = "forward" /\ args[1] = Tensor(1) /\ args[2] = None /\ args[3] = TRUE
    /\ inferred
    /\ exc.type = "ValueError"

\* C2: forward(imgs, L, return_loss=True) with L not None invokes
\* forward_train(imgs, L) exactly once and nothing else, and returns its
\* result (or lets its exception through); this holds whatever train_cfg,
\* test_cfg and the earlier calls were.
C2_TrainingPath ==
    (op = "forward" /\ args[2] # None /\ args[3] = TRUE)
        => /\ trace = <<Event("forward_train", <<args[1], args[2]>>)>>
           /\ ~Invoked("forward_test")
           /\ \/ exc = NoExc /\ ret = [kind |-> "losses", of |-> <<args[1], args[2]>>]
              \/ exc = Exc("RuntimeError", <<Str("forward_train")>>)

C2_Witness ==
    /\ op = "forward" /\ args[2] = Tensor(1) /\ args[3] = TRUE
    /\ inferred
    /\ ~test_cfg.isNone /\ ~train_cfg.isNone
    /\ exc = NoExc
    /\ ret.kind = "losses"

\* C3: with test_cfg['average_clips'] == 'score', average_clip(S) of a
\* (k, c) tensor, k >= 1, returns one row of c entries, the j-th the
\* arithmetic mean of column j of S: entry * k = the sum of column j.
RECURSIVE IntSum(_)
IntSum(s) == IF s = <<>> THEN 0 ELSE s[1][1] + IntSum(Tail(s))

C3_ScoreIsColumnMean ==
    (op = "average_clip" /\ HasPolicy /\ Policy = Str("score"))
        => LET S == args[1]
           IN  /\ exc = NoExc
               /\ Len(ret) = 1
               /\ Len(ret[1]) = Len(S[1])
               /\ \A j \in 1..Len(S[1]) :
                     /\ ret[1][j][2] > 0
                     /\ ret[1][j][1] * Len(S) =
                            ret[1][j][2] * IntSum([i \in 1..Len(S) |-> S[i][j]])

C3_Witness ==
    /\ op = "average_clip" /\ HasPolicy /\ Policy = Str("score")
    /\ args[1] = << <<<<1, 1>>, <<3, 1>>>>, <<<<3, 1>>, <<1, 1>>>> >>
    /\ ret = << <<<<2, 1>>, <<2, 1>>>> >>

\* C4 as stated: when the policy is null or 'average_clips' is absent from
\* test_cfg, average_clip(S) returns S unchanged.
C4_Original ==
    (op = "average_clip" /\ (~HasPolicy \/ Policy = None))
        => (exc = NoExc /\ ret = args[1])

\* C4 amended: when test_cfg holds 'average_clips' with the value None,
\* average_clip(S) returns S itself, all its rows, and computes nothing.
C4_NullPolicyIsIdentity ==
    (op = "average_clip" /\ HasPolicy /\ Policy = None)
        => (exc = NoExc /\ ret = args[1] /\ trace = <<>>)

C4_Witness ==
    /\ op = "average_clip" /\ HasPolicy /\ Policy = None
    /\ Len(args[1]) = MaxClips
    /\ ret = args[1]

\* C5 as stated: whenever test_cfg does not contain 'average_clips' (test_cfg
\* = {} and equally the default test_cfg = None), average_clip(S) raises a
\* KeyError and computes no score.
C5_MissingKeyIsKeyError ==
    (op = "average_clip" /\ ~HasPolicy)
        => (exc.type = "KeyError" /\ trace = <<>>)

\* C6: a value of 'average_clips' outside {'score', 'prob', None} makes
\* average_clip raise a ValueError whose message names the value; nothing is
\* computed or returned; and the ValueError is raised only when the key is
\* present.
C6_UnsupportedPolicyRaises ==
    /\ (op = "average_clip" /\ HasPolicy
          /\ Policy # Str("score") /\ Policy # Str("prob") /\ Policy # None)
            => /\ exc.type = "ValueError"
               /\ exc.msg[1] = Policy
               /\ trace = <<>>
               /\ ret = None
    /\ (op = "average_clip" /\ exc.type = "ValueError") => HasPolicy

C6_Witness ==
    /\ op = "average_clip" /\ HasPolicy /\ Policy = Str("max")
    /\ exc.type = "ValueError"

\* C7: for a batch record that holds 'imgs' and a non-null 'label' and whose
\* entries all have the same length n, train_step returns a record whose
\* num_samples is n, the length of every entry (unless forward_train or
\* parse_losses raised, and then that exception is what the call raises).
BatchHas(d, k) == \E i \in 1..Len(d) : d[i][1] = k
BatchAt(d, k) == d[CHOOSE i \in 1..Len(d) : d[i][1] = k][2]
BatchAligned(d) ==
    /\ BatchHas(d, "imgs") /\ BatchHas(d, "label")
    /\ \A i \in 1..Len(d) : d[i][2].tag = "Tensor"
    /\ \A i, j \in 1..Len(d) : d[i][2].len = d[j][2].len

C7_NumSamplesIsBatchSize ==
    (op = "train_step" /\ BatchAligned(args[1]))
        => \/ /\ exc = NoExc
              /\ \A i \in 1..Len(args[1]) : ret.num_samples = args[1][i][2].len
           \/ exc = Exc("RuntimeError", <<Str("forward_train")>>)
           \/ exc = Exc("TypeError", <<Str("parse_losses")>>)

C7_Witness ==
    /\ op = "train_step" /\ BatchAligned(args[1])
    /\ Len(args[1]) = 3
    /\ args[1][1][1] = "meta"
    /\ exc = NoExc
    /\ ret.num_samples = MaxBatch

\* C8: train_step reaches the subclass only through forward with return_loss
\* true: it never invokes forward_test, with a None label it raises the
\* ValueError before forward_train and parse_losses run, and with a label its
\* first collaborator call is forward_train(imgs, label).  val_step reaches it
\* only through forward(imgs, None, return_loss=False): it invokes
\* forward_test(imgs) and nothing else, never raises the missing-label error,
\* and returns {results: forward_test's result}.
C8_StepsRouteThroughForward ==
    /\ op = "train_step"
         => /\ ~Invoked("forward_test")
            /\ (BatchHas(args[1], "imgs") /\ BatchHas(args[1], "label"))
                 => IF BatchAt(args[1], "label") = None
                    THEN /\ exc = Exc("ValueError",
                                      <<Str("Label should not be None.")>>)
                         /\ trace = <<>>
                    ELSE /\ Len(trace) >= 1
                         /\ trace[1] = Event("forward_train",
                                             <<BatchAt(args[1], "imgs"),
                                               BatchAt(args[1], "label")>>)
                         /\ \A i \in 2..Len(trace) : trace[i].fn = "parse_losses"
    /\ op = "val_step"
         => /\ ~Invoked("forward_train")
            /\ exc.type # "ValueError"
            /\ BatchHas(args[1], "imgs")
                 => /\ trace = <<Event("forward_test", <<BatchAt(args[1], "imgs")>>)>>
                    /\ \/ /\ exc = NoExc
                          /\ ret = [results |->
                                      [kind |-> "predictions",
                                       of |-> <<BatchAt(args[1], "imgs")>>]]
                       \/ exc = Exc("RuntimeError", <<Str("forward_test")>>)

C8_Witness ==
    /\ op = "train_step"
    /\ BatchHas(args[1], "imgs") /\ BatchHas(args[1], "label")
    /\ BatchAt(args[1], "label") = None
    /\ inferred
    /\ exc.type = "ValueError"

\* C9: construction runs build_backbone, build_head, the two stores, then
\* backbone.init_weights, then cls_head.init_weights, in that order and
\* stopping at the first that raises; when it raises no instance exists, and
\* when a build raises no init_weights routine has run.  An instance exists
\* only as the product of the complete sequence, so both routines precede
\* every forward / train_step / val_step call, which need the instance.
ConstructionOrder ==
    <<"build_backbone", "build_head", "self.train_cfg", "self.test_cfg",
      "backbone.init_weights", "cls_head.init_weights">>
CtorFns == [i \in 1..Len(ctor) |-> ctor[i].fn]

C9_ConstructionOrder ==
    /\ op = "__init__"
         => /\ Len(trace) <= Len(ConstructionOrder)
            /\ \A i \in 1..Len(trace) : TraceFns[i] = ConstructionOrder[i]
            /\ exists <=> (exc = NoExc)
            /\ exc = NoExc => Len(trace) = Len(ConstructionOrder)
            /\ (\E i \in 1..Len(trace) :
                    /\ trace[i].fn \in {"build_backbone", "build_head"}
                    /\ exc = Exc("KeyError", trace[i].args))
                 => /\ ~exists
                    /\ ~Invoked("backbone.init_weights")
                    /\ ~Invoked("cls_head.init_weights")
    /\ exists => CtorFns = ConstructionOrder
    /\ op \in {"forward", "train_step", "val_step", "extract_feat",
               "average_clip", "init_weights"}
         => (exists /\ CtorFns = ConstructionOrder)
    /\ op = "init_weights"
         => /\ Len(trace) >= 1
            /\ trace[1].fn = "backbone.init_weights"
            /\ exc = NoExc => TraceFns = <<"backbone.init_weights",
                                           "cls_head.init_weights">>

C9_Witness ==
    /\ op = "train_step"
    /\ exists
    /\ exc = NoExc
    /\ CtorFns = ConstructionOrder

\* C10 as stated: when init_weights, forward, train_step or val_step raises,
\* the parameters are exactly what they were before the call.
C10_Original ==
    (op \in {"init_weights", "forward", "train_step", "val_step"} /\ exc # NoExc)
        => Params = pre

\* C10 amended: when forward, train_step or val_step raises, the parameters
\* are what they were before the call; init_weights is not atomic: a call
\* that fails in the head's initialization has run the backbone's to
\* completion, so the backbone is left re-initialized, not as it was.
C10_FailureEffects ==
    /\ (op \in {"forward", "train_step", "val_step"} /\ exc # NoExc)
         => Params = pre
    /\ (op = "init_weights"
          /\ exc = Exc("RuntimeError", <<Str("cls_head.init_weights")>>))
         => /\ TraceFns = <<"backbone.init_weights", "cls_head.init_weights">>
            /\ backbone = Initialized

C10_Witness ==
    /\ op = "init_weights"
    /\ exc = Exc("RuntimeError", <<Str("cls_head.init_weights")>>)
    /\ pre.backbone.updated
    /\ backbone # pre.backbone

====
